---- MODULE Spec2Model ----
(***************************************************************************)
(* popcorn: the workflow orchestrator of s3gw-core (popcorn.py) with the   *)
(* git and podman helpers it drives (libpopcorn/git.py, podman.py).        *)
(*                                                                         *)
(* Strings that the code compares by suffix, by substring or splits at ':' *)
(* are sequences of tokens; a token is a run of characters no comparison   *)
(* of the code cuts through.  An Optional value is <<>> (None) or <<v>>.   *)
(***************************************************************************)
EXTENDS Integers, Sequences, FiniteSets, TLC

\* ------------------------------------------------------------------ bounds
\* successive invocations of the command line tool
MaxRuns == 2
\* images in the registry before the first run
MaxInitImages == 1
\* images another process adds to the registry while the tool runs
MaxPushes == 1

\* --------------------------------------------------------------- strings
RECURSIVE SplitAt(_, _, _)
\* str.split(sep) on a token string: acc holds the part being read
SplitAt(s, sep, acc) ==
    IF s = <<>> THEN <<acc>>
    ELSE IF Head(s) = sep THEN <<acc>> \o SplitAt(Tail(s), sep, <<>>)
    ELSE SplitAt(Tail(s), sep, Append(acc, Head(s)))

\* name.split(":")
Split(s) == SplitAt(s, ":", <<>>)

\* str.endswith(suffix)
EndsWith(s, suffix) ==
    /\ Len(suffix) <= Len(s)
    /\ SubSeq(s, Len(s) - Len(suffix) + 1, Len(s)) = suffix

\* `sub in s` on strings
Contains(s, sub) ==
    \E i \in 1..(Len(s) - Len(sub) + 1) : SubSeq(s, i, i + Len(sub) - 1) = sub

\* f"{name}:{tag}"
Ref(name, tag) == name \o <<":">> \o tag

\* ------------------------------------------------------------- constants
\* line 405 and line 428: the logical names of the two kinds of image
s3gw_image_name == <<"popcorn/", "s3gw">>
build_img_name == <<"popcorn/", "builder">>
\* the container name run_tests starts and stops
TestInstance == "popcorn-s3gw"
\* the container name of the compile step
BuilderInstance == "popcorn-builder"
\* the two repositories of the workspace
Repos == {"ceph", "s3gw-tools"}

\* short commit hashes `git rev-parse --short HEAD` can print: the ceph
\* branches point at r1 or r2, the s3gw-tools branches at r1
Revs == {<<"r1">>, <<"r2">>}
RepoRevs(repo) == IF repo = "ceph" THEN Revs ELSE {<<"r1">>}

\* f"popcorn/{origin}/{branch}"; origin is a token, branch a token string
LocalName(org, branch) == <<"popcorn/", org, "/">> \o branch
\* f"pull/{pr_id}/head"
PrRef(pr_id) == <<"pull/", pr_id, "/head">>

\* command line arguments the runs are tried with
BranchName == <<"fix-123">>
RemoteArgs == {<<>>, <<"fork">>, <<"bogus">>}
CephPr == "42"
ToolsPrArgs == {<<>>, <<"7">>}
\* config.additional_repos: None, or a list of AdditionalRepositoryConfig
AdditionalRepoConfigs ==
    {<<>>, << <<[name |-> "fork", url |-> "https://github.com/fork"]>> >>}

\* One entry of `podman images --format json` is the sequence of its
\* "Names"; an entry without "Names" (a dangling image) is <<>>.
InitEntries ==
    { <<Ref(<<"localhost/", "popcorn/", "s3gw">>, t)>> : t \in Revs }
    \cup { <<Ref(<<"localhost/", "popcorn/", "builder">>, t)>> : t \in Revs }
    \cup { <<Ref(<<"localhost/", "popcorn/", "builder", "-old">>, <<"r1">>)>>,
           <<Ref(<<"localhost/", "popcorn/", "builder", "/", "popcorn/", "s3gw">>,
                 <<"r1">>)>>,
           <<Ref(<<"quay.io/", "popcorn/", "s3gw">>, <<"r1">>),
             Ref(<<"localhost/", "popcorn/", "s3gw">>, <<"r1">>)>>,
           <<Ref(<<"localhost", ":", "5000/", "popcorn/", "s3gw">>, <<"r1">>)>>,
           <<>> }

RECURSIVE SeqsUpTo(_, _)
\* the sequences over S of length at most n
SeqsUpTo(S, n) ==
    IF n = 0 THEN {<<>>}
    ELSE LET shorter == SeqsUpTo(S, n - 1)
         IN shorter \cup { Append(q, e) : q \in shorter, e \in S }

\* ------------------------------------------------------------------ state
VARIABLES
    \* the world the tool acts on
    registry,       \* podman's images, in listing order (newest first)
    pushes,         \* images added by other processes so far
    remotes,        \* names of the git remotes of ceph.git
    cur,            \* repo -> checked-out branch (`git branch --show-current`)
    head,           \* repo -> short hash of HEAD
    containers,     \* containers podman knows: [name, running, run, took_over]
    built,          \* images built by the tool: [kind, repo, ref, tag, rev, run]
    tested,         \* harness runs so far: [run, rev, image, fresh, passed]
    \* the process
    pc, runNo, exitCode, argv, config, trace,
    \* locals of workflow_run_branch / workflow_run_pr / run_for_local / run_tests
    origin, ceph_branch, tools_branch, images, ceph_commit, tools_commit,
    s3gw_image, build_image, success

world == <<registry, pushes, remotes, cur, head, containers, built,
          tested>>
ctl == <<pc, runNo, exitCode, argv, config, trace>>
locals == <<origin, ceph_branch, tools_branch, images, ceph_commit,
            tools_commit, s3gw_image, build_image, success>>
vars == <<world, ctl, locals>>

NoLocals ==
    /\ origin = "" /\ ceph_branch = <<>> /\ tools_branch = <<>>
    /\ images = <<>> /\ ceph_commit = <<>> /\ tools_commit = <<>>
    /\ s3gw_image = <<>> /\ build_image = <<>> /\ success = FALSE

Init ==
    /\ registry \in SeqsUpTo(InitEntries, MaxInitImages)
    /\ pushes = 0
    /\ remotes = {"origin"}
    /\ cur = [r \in Repos |-> <<"main">>]
    /\ head = [r \in Repos |-> <<"r1">>]
    /\ containers = {}
    /\ built = {}
    /\ tested = {}
    /\ pc = "idle" /\ runNo = 0 /\ exitCode = -1
    /\ argv = [cmd |-> "none"] /\ trace = <<>>
    /\ config \in AdditionalRepoConfigs
    /\ NoLocals

\* one external call made by the run, appended to the run's trace: the
\* command, the repository it ran in, whether it succeeded and, for the
\* queries the code branches on, what it answered
CallRes(op, repo, ok, res) == [op |-> op, repo |-> repo, ok |-> ok, res |-> res]
Call(op, repo, ok) == CallRes(op, repo, ok, "")
Did(calls) == trace' = trace \o calls

\* sys.exit(code), an uncaught exception (exit status 1), or the return of
\* the command (exit status 0)
Exit(code) == pc' = "done" /\ exitCode' = code

\* ------------------------------------------------------- git.py helpers
\* git.fetch: the current branch is asked for, then the ref is pulled when
\* it is the checked-out branch and fetched otherwise.  okCur and okCmd are
\* the outcomes of the two git commands, rev the hash HEAD has after a pull.
fetch_calls_always_fetch(repo, org, branch, okCur, okCmd) ==
    IF ~okCur THEN <<Call("show_current", repo, FALSE)>>
    ELSE <<Call("show_current", repo, TRUE), Call("fetch", repo, okCmd)>>

\* lines 51-80: the calls git.fetch makes
fetch_calls(repo, org, branch, okCur, okCmd) ==
    IF ~okCur THEN <<Call("show_current", repo, FALSE)>>
    ELSE <<Call("show_current", repo, TRUE),
           Call(IF cur[repo] = LocalName(org, branch) THEN "pull" ELSE "fetch",
                repo, okCmd)>>

fetch(repo, org, branch, okCur, okCmd, rev) ==
    /\ Did(fetch_calls(repo, org, branch, okCur, okCmd))
    /\ head' = IF okCur /\ okCmd /\ cur[repo] = LocalName(org, branch)
               THEN [head EXCEPT ![repo] = rev]
               ELSE head

\* git.pr_fetch
pr_fetch(repo, pr_id, okCur, okCmd, rev) ==
    fetch(repo, "origin", PrRef(pr_id), okCur, okCmd, rev)

\* ------------------------------------------------------------ the command
\* cli: a new invocation of the tool, `run branch` or `run pr`, with the
\* configuration file of the workspace
Cli ==
    /\ pc \in {"idle", "done"}
    /\ runNo < MaxRuns
    /\ runNo' = runNo + 1
    /\ exitCode' = -1
    /\ trace' = <<>>
    /\ origin' = "" /\ ceph_branch' = <<>> /\ tools_branch' = <<>>
    /\ images' = <<>> /\ ceph_commit' = <<>> /\ tools_commit' = <<>>
    /\ s3gw_image' = <<>> /\ build_image' = <<>> /\ success' = FALSE
    /\ \E tools_pr_id \in ToolsPrArgs :
         \/ /\ \E remote \in RemoteArgs :
                 argv' = [cmd |-> "branch", name |-> BranchName,
                          remote |-> remote, tools_pr_id |-> tools_pr_id]
            /\ pc' = "branch_get_remotes"
         \/ /\ argv' = [cmd |-> "pr", pr_id |-> CephPr,
                        tools_pr_id |-> tools_pr_id]
            /\ pc' = "pr_check"
    /\ UNCHANGED <<world, config>>

\* ---------------------------------------------------- workflow_run_branch
\* r.name of the first configured repository named org, if any
ConfiguredRepo(org) ==
    IF config = <<>> THEN {}
    ELSE { config[1][i].name : i \in { j \in 1..Len(config[1]) :
                                        config[1][j].name = org } }

\* lines 226-241: the remote is looked up, then looked for in the config
BranchGetRemotes ==
    /\ pc = "branch_get_remotes"
    /\ LET org == IF argv.remote = <<>> THEN "origin" ELSE argv.remote[1]
       IN /\ origin' = org
          /\ \E ok \in BOOLEAN :
               /\ Did(<<CallRes("get_remotes", "ceph", ok,
                                 IF org \in remotes THEN "known" ELSE "unknown")>>)
               /\ IF ~ok THEN Exit(1)
                  ELSE IF org \in remotes
                       THEN pc' = "branch_update" /\ UNCHANGED exitCode
                  ELSE IF config = <<>> THEN Exit(1)
                  ELSE IF ConfiguredRepo(org) # {}
                       THEN pc' = "branch_add_remote" /\ UNCHANGED exitCode
                  ELSE pc' = "branch_get_remotes_again" /\ UNCHANGED exitCode
    /\ UNCHANGED <<world, runNo, argv, config, ceph_branch, tools_branch,
                   images, ceph_commit, tools_commit, s3gw_image, build_image,
                   success>>

\* line 238: git.add_remote
BranchAddRemote ==
    /\ pc = "branch_add_remote"
    /\ \E ok \in BOOLEAN :
         /\ Did(<<Call("add_remote", "ceph", ok)>>)
         /\ IF ok
            THEN /\ remotes' = remotes \cup {origin}
                 /\ pc' = "branch_get_remotes_again" /\ UNCHANGED exitCode
            ELSE /\ Exit(1) /\ UNCHANGED remotes
    /\ UNCHANGED <<registry, pushes, cur, head, containers, built, tested,
                   runNo, argv,
                   config, locals>>

\* mutant: the assertion is not made
assert_nothing == TRUE

\* line 246: assert origin in remotes
assert_origin_in_remotes == origin \in remotes

\* lines 244-246: the remotes are listed again and the assertion is made
BranchGetRemotesAgain ==
    /\ pc = "branch_get_remotes_again"
    /\ \E ok \in BOOLEAN :
         /\ Did(<<CallRes("get_remotes", "ceph", ok,
                           IF origin \in remotes THEN "known" ELSE "unknown")>>)
         /\ IF ok /\ assert_origin_in_remotes
            THEN pc' = "branch_update" /\ UNCHANGED exitCode
            ELSE Exit(1)
    /\ UNCHANGED <<world, runNo, argv, config, locals>>

\* line 248: git.update
BranchUpdate ==
    /\ pc = "branch_update"
    /\ \E ok \in BOOLEAN :
         /\ Did(<<Call("update", "ceph", ok)>>)
         /\ IF ok THEN pc' = "branch_fetch" /\ UNCHANGED exitCode ELSE Exit(1)
    /\ UNCHANGED <<world, runNo, argv, config, locals>>

\* lines 251-257: git.fetch of the branch
BranchFetch ==
    /\ pc = "branch_fetch"
    /\ \E okCur, okCmd \in BOOLEAN, rev \in RepoRevs("ceph") :
         /\ fetch("ceph", origin, argv.name, okCur, okCmd, rev)
         /\ IF okCur /\ okCmd
            THEN /\ ceph_branch' = LocalName(origin, argv.name)
                 /\ pc' = "local_tools_pr" /\ UNCHANGED exitCode
            ELSE /\ Exit(1) /\ UNCHANGED ceph_branch
    /\ UNCHANGED <<registry, pushes, remotes, cur, containers, built, tested, runNo,
                   argv, config, origin, tools_branch, images, ceph_commit,
                   tools_commit, s3gw_image, build_image, success>>

\* --------------------------------------------------------- check_pr_exists
\* what git.pr_exists can answer
PrAnswers == {"open", "merged", "not_found", "error"}

\* mutant: the merged state of the pull request is not looked at
check_pr_exists_any_state(answer, not_merged) == answer \in {"open", "merged"}

\* check_pr_exists: TRUE when the call returns, FALSE when it ends the process
check_pr_exists(answer, not_merged) ==
    /\ answer \in {"open", "merged"}
    /\ ~(not_merged /\ answer = "merged")

\* -------------------------------------------------------- workflow_run_pr
\* line 331: check_pr_exists("ceph", pr_id, True)
PrCheck ==
    /\ pc = "pr_check"
    /\ \E answer \in PrAnswers :
         /\ Did(<<CallRes("pr_exists", "ceph", answer \in {"open", "merged"},
                           answer)>>)
         /\ IF check_pr_exists(answer, TRUE)
            THEN pc' = "pr_fetch" /\ UNCHANGED exitCode
            ELSE Exit(1)
    /\ UNCHANGED <<world, runNo, argv, config, locals>>

\* lines 337-344: git.pr_fetch of the pull request
PrFetch ==
    /\ pc = "pr_fetch"
    /\ \E okCur, okCmd \in BOOLEAN, rev \in RepoRevs("ceph") :
         /\ pr_fetch("ceph", argv.pr_id, okCur, okCmd, rev)
         /\ IF okCur /\ okCmd
            THEN /\ ceph_branch' = LocalName("origin", PrRef(argv.pr_id))
                 /\ pc' = "local_tools_pr" /\ UNCHANGED exitCode
            ELSE /\ Exit(1) /\ UNCHANGED ceph_branch
    /\ UNCHANGED <<registry, pushes, remotes, cur, containers, built, tested, runNo,
                   argv, config, origin, tools_branch, images, ceph_commit,
                   tools_commit, s3gw_image, build_image, success>>

\* ---------------------------------------------------- podman.py helpers
\* the PodmanImage records of one entry's "Names"
entry_images(names) ==
    [i \in 1..Len(names) |->
        [name |-> Split(names[i])[1], tag |-> Split(names[i])[2]]]

RECURSIVE list_images(_)
\* podman.list_images: entries without names are skipped, every name of
\* an entry gives one PodmanImage
list_images(reg) ==
    IF reg = <<>> THEN <<>>
    ELSE entry_images(Head(reg)) \o list_images(Tail(reg))

\* `img_name, img_tag = name.split(":")` unpacks: exactly two parts
list_images_unpacks(reg) ==
    \A i \in 1..Len(reg) : \A j \in 1..Len(reg[i]) : Len(Split(reg[i][j])) = 2

\* podman qualifies a short image name with localhost/
Normalize(ref) == <<"localhost/">> \o ref

\* `podman build -t ref`: the new image is listed first and takes the name
\* from any image that had it
podman_add(reg, full) ==
    <<<<full>>>> \o
    [i \in 1..Len(reg) |-> SelectSeq(reg[i], LAMBDA n : n # full)]

\* podman.build_image: imgname = f"popcorn/builder:{tag}"
build_image_name(tag) == Ref(<<"popcorn/", "builder">>, tag)

\* mutant: `podman run --name name` adds a container and leaves a prior one
podman_run_without_replace(cs, name, running, run) ==
    cs \cup {[name |-> name, running |-> running, run |-> run,
              took_over |-> FALSE]}

\* `podman run --replace --name name`: a container of that name is replaced;
\* took_over tells whether the one replaced was running
podman_run(cs, name, running, run) ==
    { c \in cs : c.name # name }
    \cup {[name |-> name, running |-> running, run |-> run,
           took_over |-> \E c \in cs : c.name = name /\ c.running]}

\* `podman stop name`
podman_stop(cs, name) ==
    { IF c.name = name THEN [c EXCEPT !.running = FALSE] ELSE c : c \in cs }

\* ------------------------------------------------------- artifact lookups
\* the loops stop at the first image accepted (break): its index among
\* the indices accepted
First(hits) == CHOOSE i \in hits : \A j \in hits : i <= j

\* mutant: the image name is compared for equality
find_s3gw_image_exact_name(imgs, commit) ==
    LET hits == { i \in 1..Len(imgs) :
                    imgs[i].name = s3gw_image_name /\ commit = imgs[i].tag }
    IN IF hits = {} THEN <<>>
       ELSE <<Ref(imgs[First(hits)].name, imgs[First(hits)].tag)>>

\* mutant: the tag is not compared
find_s3gw_image_any_tag(imgs, commit) ==
    LET hits == { i \in 1..Len(imgs) : EndsWith(imgs[i].name, s3gw_image_name) }
    IN IF hits = {} THEN <<>>
       ELSE <<Ref(imgs[First(hits)].name, imgs[First(hits)].tag)>>

\* lines 407-410: the loop over images for the s3gw image
find_s3gw_image(imgs, commit) ==
    LET hits == { i \in 1..Len(imgs) :
                    EndsWith(imgs[i].name, s3gw_image_name)
                    /\ commit = imgs[i].tag }
    IN IF hits = {} THEN <<>>
       ELSE <<Ref(imgs[First(hits)].name, imgs[First(hits)].tag)>>

\* lines 430-433: the loop over images for the builder image
find_build_image(imgs, commit) ==
    LET hits == { i \in 1..Len(imgs) :
                    Contains(imgs[i].name, build_img_name)
                    /\ commit = imgs[i].tag }
    IN IF hits = {} THEN <<>>
       ELSE <<Ref(imgs[First(hits)].name, imgs[First(hits)].tag)>>

\* ----------------------------------------------------------- run_for_local
\* mutant: the repositories are checked out as they are, without the clean
checkout_without_clean == "local_checkout"

\* lines 368-373: once the tools branch is settled the two repositories are
\* cleaned, before anything is checked out
after_tools_branch == "local_clean"

\* mutant: a tools PR must be unmerged, like a ceph PR
tools_pr_unmerged_required == TRUE

\* line 357: check_pr_exists is called with not_merged = False for the tools
tools_pr_not_merged == FALSE

\* lines 354-358: the tools branch is main unless a tools PR is given, and
\* then check_pr_exists("s3gw-tools", tools_pr_id, False)
LocalToolsPr ==
    /\ pc = "local_tools_pr"
    /\ IF argv.tools_pr_id = <<>>
       THEN /\ tools_branch' = <<"main">>
            /\ pc' = after_tools_branch
            /\ UNCHANGED <<exitCode, trace>>
       ELSE /\ \E answer \in PrAnswers :
                 /\ Did(<<CallRes("pr_exists", "s3gw-tools",
                                  answer \in {"open", "merged"}, answer)>>)
                 /\ IF check_pr_exists(answer, tools_pr_not_merged)
                    THEN pc' = "local_tools_pr_fetch" /\ UNCHANGED exitCode
                    ELSE Exit(1)
            /\ tools_branch' = <<"main">>
    /\ UNCHANGED <<world, runNo, argv, config, origin, ceph_branch, images,
                   ceph_commit, tools_commit, s3gw_image, build_image, success>>

\* lines 359-366: git.pr_fetch of the tools PR
LocalToolsPrFetch ==
    /\ pc = "local_tools_pr_fetch"
    /\ \E okCur, okCmd \in BOOLEAN, rev \in RepoRevs("s3gw-tools") :
         /\ pr_fetch("s3gw-tools", argv.tools_pr_id[1], okCur, okCmd, rev)
         /\ IF okCur /\ okCmd
            THEN /\ tools_branch' = LocalName("origin", PrRef(argv.tools_pr_id[1]))
                 /\ pc' = after_tools_branch /\ UNCHANGED exitCode
            ELSE /\ Exit(1) /\ UNCHANGED tools_branch
    /\ UNCHANGED <<registry, pushes, remotes, cur, containers, built, tested, runNo,
                   argv, config, origin, ceph_branch, images, ceph_commit,
                   tools_commit, s3gw_image, build_image, success>>

\* lines 368-376: git.clean_repo of ceph, then of s3gw-tools
LocalClean ==
    /\ pc = "local_clean"
    /\ \E ok1, ok2 \in BOOLEAN :
         /\ Did(IF ~ok1 THEN <<Call("clean", "ceph", FALSE)>>
                ELSE <<Call("clean", "ceph", TRUE),
                       Call("clean", "s3gw-tools", ok2)>>)
         /\ IF ok1 /\ ok2
            THEN pc' = "local_checkout" /\ UNCHANGED exitCode
            ELSE Exit(1)
    /\ UNCHANGED <<world, runNo, argv, config, locals>>

\* mutant: the error of a checkout is swallowed
after_checkout_swallows_error(ok) == "local_list_images"

\* lines 386-388: a PopcornError of a checkout ends the process
after_checkout(ok) == IF ok THEN "local_list_images" ELSE "done"

\* mutant: s3gw-tools is always checked out at main
tools_checkout_main == <<"main">>

\* line 385: the branch s3gw-tools is checked out at
tools_checkout_branch == tools_branch

\* lines 378-388: git.checkout_branch of ceph, then of s3gw-tools; rev1 and
\* rev2 are the commits the two branches point at
LocalCheckout ==
    /\ pc = "local_checkout"
    /\ \E ok1, ok2 \in BOOLEAN,
          rev1 \in RepoRevs("ceph"), rev2 \in RepoRevs("s3gw-tools") :
         /\ Did(IF ~ok1 THEN <<Call("checkout", "ceph", FALSE)>>
                ELSE <<Call("checkout", "ceph", TRUE),
                       Call("checkout", "s3gw-tools", ok2)>>)
         /\ cur' = [r \in Repos |->
                      IF r = "ceph" /\ ok1 THEN ceph_branch
                      ELSE IF r = "s3gw-tools" /\ ok1 /\ ok2
                      THEN tools_checkout_branch
                      ELSE cur[r]]
         /\ head' = [r \in Repos |->
                      IF r = "ceph" /\ ok1 THEN rev1
                      ELSE IF r = "s3gw-tools" /\ ok1 /\ ok2 THEN rev2
                      ELSE head[r]]
         /\ pc' = after_checkout(ok1 /\ ok2)
         /\ exitCode' = IF after_checkout(ok1 /\ ok2) = "done" THEN 1 ELSE exitCode
    /\ UNCHANGED <<registry, pushes, remotes, containers, built, tested, runNo, argv,
                   config, locals>>

\* lines 390-395: podman.list_images; a name that does not split in two
\* raises ValueError, which nothing catches
LocalListImages ==
    /\ pc = "local_list_images"
    /\ \E ok \in BOOLEAN :
         /\ Did(<<Call("list_images", "-", ok)>>)
         /\ IF ok /\ list_images_unpacks(registry)
            THEN /\ images' = list_images(registry)
                 /\ pc' = "local_ceph_commit" /\ UNCHANGED exitCode
            ELSE /\ Exit(1) /\ UNCHANGED images
    /\ UNCHANGED <<world, runNo, argv, config, origin, ceph_branch,
                   tools_branch, ceph_commit, tools_commit, s3gw_image,
                   build_image, success>>

\* mutant: the image is tagged with the branch, not with the commit
new_s3gw_image_by_branch(commit) == Ref(s3gw_image_name, ceph_branch)

\* line 416: s3gw_image = f"{s3gw_image_name}:{ceph_commit}"
new_s3gw_image(commit) == Ref(s3gw_image_name, commit)

\* mutant: the registry is listed again for the lookup
images_listed_again == list_images(registry)

\* line 407: the lookup loops over the images listed at line 392
lookup_images == images

\* lines 397-416: the ceph commit is read and the s3gw image looked for;
\* when found, run_tests is called with it
LocalCephCommit ==
    /\ pc = "local_ceph_commit"
    /\ \E ok \in BOOLEAN :
         /\ Did(<<Call("get_latest_commit", "ceph", ok)>>)
         /\ IF ~ok THEN Exit(1) /\ UNCHANGED <<ceph_commit, s3gw_image>>
            ELSE /\ ceph_commit' = head["ceph"]
                 /\ UNCHANGED exitCode
                 /\ LET found == find_s3gw_image(lookup_images, head["ceph"])
                    IN IF found # <<>>
                       THEN s3gw_image' = found /\ pc' = "tests_start"
                       ELSE /\ s3gw_image' = <<new_s3gw_image(head["ceph"])>>
                            /\ pc' = "local_tools_commit"
    /\ UNCHANGED <<world, runNo, argv, config, origin, ceph_branch,
                   tools_branch, images, tools_commit, build_image, success>>

\* lines 420-436: the tools commit is read and the builder image looked for
LocalToolsCommit ==
    /\ pc = "local_tools_commit"
    /\ \E ok \in BOOLEAN :
         /\ Did(<<Call("get_latest_commit", "s3gw-tools", ok)>>)
         /\ IF ~ok THEN Exit(1) /\ UNCHANGED <<tools_commit, build_image>>
            ELSE /\ tools_commit' = head["s3gw-tools"]
                 /\ UNCHANGED exitCode
                 /\ build_image' = find_build_image(images, head["s3gw-tools"])
                 /\ pc' = IF build_image' # <<>> THEN "local_run_builder"
                          ELSE "local_build_image"
    /\ UNCHANGED <<world, runNo, argv, config, origin, ceph_branch,
                   tools_branch, images, ceph_commit, s3gw_image, success>>

\* mutant: the builder image is tagged with the commit of ceph
builder_tag_of_ceph == ceph_commit

\* lines 439-441: the tag podman.build_image is called with
builder_tag == tools_commit

\* lines 437-444: podman.build_image builds and tags the builder image
LocalBuildImage ==
    /\ pc = "local_build_image"
    /\ \E ok \in BOOLEAN :
         /\ Did(<<Call("build_image", "s3gw-tools", ok)>>)
         /\ IF ok
            THEN /\ registry' = podman_add(registry,
                                    Normalize(build_image_name(builder_tag)))
                 /\ built' = built \cup
                      {[kind |-> "builder", repo |-> "s3gw-tools",
                        ref |-> Normalize(build_image_name(builder_tag)),
                        tag |-> builder_tag, rev |-> head["s3gw-tools"],
                        run |-> runNo]}
                 /\ build_image' = <<build_image_name(builder_tag)>>
                 /\ pc' = "local_run_builder" /\ UNCHANGED exitCode
            ELSE /\ Exit(1) /\ UNCHANGED <<registry, built, build_image>>
    /\ UNCHANGED <<pushes, remotes, cur, head, containers, tested, runNo, argv,
                   config, origin, ceph_branch, tools_branch, images,
                   ceph_commit, tools_commit, s3gw_image, success>>

\* mutant: the error of the compile run is swallowed
after_run_builder_swallows_error(ok) == "local_package"

\* lines 468-470: a PopcornError of podman.run ends the process
after_run_builder(ok) == IF ok THEN "local_package" ELSE "done"

\* lines 446-470: podman.run of the builder image on the ceph tree, in the
\* foreground: the container has exited when the call returns
LocalRunBuilder ==
    /\ pc = "local_run_builder"
    /\ \E ok \in BOOLEAN :
         /\ Did(<<Call("run_builder", "ceph", ok)>>)
         /\ containers' = podman_run(containers, BuilderInstance, FALSE, runNo)
         /\ pc' = after_run_builder(ok)
         /\ exitCode' = IF after_run_builder(ok) = "done" THEN 1 ELSE exitCode
    /\ UNCHANGED <<registry, pushes, remotes, cur, head, built, tested, runNo, argv,
                   config, locals>>

\* lines 472-490: podman build of the s3gw image from the build output
LocalPackage ==
    /\ pc = "local_package"
    /\ \E ok \in BOOLEAN :
         /\ Did(<<Call("package", "ceph", ok)>>)
         /\ IF ok
            THEN /\ registry' = podman_add(registry, Normalize(s3gw_image[1]))
                 /\ built' = built \cup
                      {[kind |-> "runtime", repo |-> "ceph",
                        ref |-> Normalize(s3gw_image[1]),
                        tag |-> Split(s3gw_image[1])[2], rev |-> head["ceph"],
                        run |-> runNo]}
                 /\ pc' = "tests_start" /\ UNCHANGED exitCode
            ELSE /\ Exit(1) /\ UNCHANGED <<registry, built>>
    /\ UNCHANGED <<pushes, remotes, cur, head, containers, tested, runNo, argv,
                   config, locals>>

\* --------------------------------------------------------------- run_tests
\* mutant: the tests are run although the container did not start
after_start_ignores_error(ok) == "tests_harness"

\* lines 282-284: a failing start ends the process
after_start(ok) == IF ok THEN "tests_harness" ELSE "done"

\* lines 269-287: podman run --detach --replace --name popcorn-s3gw; when
\* it fails the container of that name may or may not be gone already
TestsStart ==
    /\ pc = "tests_start"
    /\ \E ok, replaced \in BOOLEAN :
         /\ Did(<<Call("start", "-", ok)>>)
         /\ IF ok
            THEN containers' = podman_run(containers, TestInstance, TRUE, runNo)
            ELSE containers' = IF replaced
                               THEN { c \in containers : c.name # TestInstance }
                               ELSE containers
         /\ pc' = after_start(ok)
         /\ exitCode' = IF after_start(ok) = "done" THEN 1 ELSE exitCode
    /\ UNCHANGED <<registry, pushes, remotes, cur, head, built, tested, runNo, argv,
                   config, locals>>

\* mutant: a failing harness ends run_tests at once
after_harness_returns_on_failure(returncode) ==
    IF returncode # 0 THEN "done" ELSE "tests_stop"

\* lines 293-299: both branches on the harness return code go on to the
\* stop step
after_harness(returncode) == "tests_stop"

\* mutant: success is set before the return code is looked at
harness_success_always(returncode) == TRUE

\* lines 289-297: success is False unless the return code is 0
harness_success(returncode) == returncode = 0

\* mutant: the image whose tests failed is removed (`podman rmi`)
registry_without_failed_image(returncode) ==
    IF returncode = 0 THEN registry
    ELSE [i \in 1..Len(registry) |->
             SelectSeq(registry[i],
                       LAMBDA n : n \notin {s3gw_image[1],
                                            Normalize(s3gw_image[1])})]

\* lines 289-297: neither branch on the return code touches an image
registry_after_harness(returncode) == registry

\* lines 289-297: ./run-tests.sh; its return code sets success
TestsHarness ==
    /\ pc = "tests_harness"
    /\ \E returncode \in {0, 1} :
         /\ Did(<<Call("harness", "s3gw-tools", returncode = 0)>>)
         /\ success' = harness_success(returncode)
         /\ registry' = registry_after_harness(returncode)
         /\ tested' = tested \cup
              {[run |-> runNo, rev |-> ceph_commit, image |-> s3gw_image[1],
                fresh |-> \E i \in 1..Len(trace) : trace[i].op = "package",
                passed |-> returncode = 0]}
         /\ pc' = after_harness(returncode)
    /\ UNCHANGED <<pushes, remotes, cur, head, containers, built, runNo,
                   exitCode, argv, config, origin, ceph_branch, tools_branch,
                   images, ceph_commit, tools_commit, s3gw_image, build_image>>

\* what the process exits with once run_tests returned: run_for_local
\* (lines 414-415, 492) drops the value and the command returns
exit_after_tests(passed) == 0

\* mutant: a failing stop is reported and run_tests returns its verdict
exit_after_stop_failure_by_verdict(passed) == IF passed THEN 0 ELSE 1

\* lines 302-304: a failing stop ends the process with sys.exit(1)
exit_after_stop_failure(passed) == 1

\* lines 299-306: podman stop popcorn-s3gw, then run_tests returns
TestsStop ==
    /\ pc = "tests_stop"
    /\ \E ok \in BOOLEAN :
         /\ Did(<<Call("stop", "-", ok)>>)
         /\ IF ok
            THEN /\ containers' = podman_stop(containers, TestInstance)
                 /\ Exit(exit_after_tests(success))
            ELSE /\ UNCHANGED containers
                 /\ Exit(exit_after_stop_failure(success))
    /\ UNCHANGED <<registry, pushes, remotes, cur, head, built, tested, runNo, argv,
                   config, locals>>

\* ------------------------------------------------------- other processes
\* images another process can add to the registry
PushRefs == { Ref(<<"localhost/", "popcorn/", "s3gw">>, t) : t \in Revs }

\* another process builds an image after the run listed the images (what
\* it adds earlier, the run finds in the registry like any other image):
\* right after the listing, or right before the run tags its own image
Push ==
    /\ pc \in {"local_ceph_commit", "local_package"}
    /\ pushes < MaxPushes
    /\ pushes' = pushes + 1
    /\ \E full \in PushRefs : registry' = podman_add(registry, full)
    /\ UNCHANGED <<remotes, cur, head, containers, built, tested, ctl, locals>>

Next ==
    \/ Cli
    \/ BranchGetRemotes \/ BranchAddRemote \/ BranchGetRemotesAgain
    \/ BranchUpdate \/ BranchFetch
    \/ PrCheck \/ PrFetch
    \/ LocalToolsPr \/ LocalToolsPrFetch \/ LocalClean \/ LocalCheckout
    \/ LocalListImages \/ LocalCephCommit \/ LocalToolsCommit
    \/ LocalBuildImage \/ LocalRunBuilder \/ LocalPackage
    \/ TestsStart \/ TestsHarness \/ TestsStop
    \/ Push

Spec == Init /\ [][Next]_vars

\* ================================================================ claims
\* the calls of the current run, by command
Calls(ops) == { i \in 1..Len(trace) : trace[i].op \in ops }
Has(op) == Calls({op}) # {}
HasOk(op) == \E i \in Calls({op}) : trace[i].ok
HasFailed(op) == \E i \in Calls({op}) : ~trace[i].ok

BuildOps == {"build_image", "run_builder", "package"}
TestOps == {"start", "harness", "stop"}
TestPcs == {"tests_start", "tests_harness", "tests_stop"}

\* the test instance is running
InstanceRunning == \E c \in containers : c.name = TestInstance /\ c.running

\* img is an artifact of the kind named logical for revision rev: its name
\* ends with the logical name and its tag is rev
IsArtifact(img, logical, rev) == EndsWith(img.name, logical) /\ img.tag = rev

\* the first artifact of the list for (logical, rev), as an Optional reference
FirstArtifact(imgs, logical, rev) ==
    LET hits == { i \in 1..Len(imgs) : IsArtifact(imgs[i], logical, rev) }
    IN IF hits = {} THEN <<>>
       ELSE LET i == CHOOSE k \in hits : \A j \in hits : k <= j
            IN <<Ref(imgs[i].name, imgs[i].tag)>>

\* C1: a run in which the test harness exited non-zero ends with exit code 1
\* (exit code 0 only on overall success).
C1_HarnessFailureExitsOne ==
    (pc = "done" /\ HasFailed("harness")) => exitCode = 1

\* C2: once the instance was started, the run ends only after the stop step
\* was executed, after the harness, whatever the harness answered; and the
\* instance is still running at the end only if the stop step failed.
C2_Teardown ==
    (pc = "done" /\ HasOk("start")) =>
        /\ \E i \in Calls({"harness"}) : \E j \in Calls({"stop"}) : i < j
        /\ InstanceRunning => HasFailed("stop")

\* C2 witness: the harness failed and the run ended with the instance stopped
C2_Witness ==
    /\ pc = "done" /\ HasOk("start") /\ HasFailed("harness") /\ HasOk("stop")
    /\ ~InstanceRunning

\* C3: when the listed images hold a runtime artifact tagged with the
\* revision read from the target repository, the run makes no build call,
\* does not read the tooling revision, and goes on to the test runner with
\* the first such artifact.
C3_FastPath ==
    (ceph_commit # <<>> /\
     FirstArtifact(images, s3gw_image_name, ceph_commit) # <<>>) =>
        /\ Calls(BuildOps) = {}
        /\ ~\E i \in Calls({"get_latest_commit"}) : trace[i].repo = "s3gw-tools"
        /\ pc \in TestPcs \cup {"done"}
        /\ s3gw_image = FirstArtifact(images, s3gw_image_name, ceph_commit)
        /\ build_image = <<>>
        /\ \A i \in 1..Len(trace) :
             (trace[i].op = "get_latest_commit" /\ i < Len(trace)) =>
                 trace[i + 1].op = "start"

\* C3 witness: a run ended after testing an artifact found in the registry
C3_Witness ==
    /\ pc = "done" /\ HasOk("stop") /\ Calls(BuildOps) = {}
    /\ FirstArtifact(images, s3gw_image_name, ceph_commit) # <<>>

\* the runtime artifacts built by earlier runs
BuiltBefore == { b \in built : b.kind = "runtime" /\ b.run < runNo }

\* C4: a run that finds the target repository at a revision from which an
\* earlier run built and tagged the runtime artifact makes no build call and
\* goes from the revision read straight to the test runner.
C4_Idempotence ==
    /\ ((\E i \in Calls({"checkout"}) : trace[i].repo = "ceph" /\ trace[i].ok)
        /\ \E b \in BuiltBefore : b.rev = head["ceph"]) =>
            Calls(BuildOps) = {}
    /\ (ceph_commit # <<>> /\ \E b \in BuiltBefore : b.rev = ceph_commit) =>
        /\ pc \in TestPcs \cup {"done"}
        /\ \A i \in 1..Len(trace) :
             (trace[i].op = "get_latest_commit" /\ i < Len(trace)) =>
                 trace[i + 1].op = "start"

\* C4 witness: the second run tested the artifact the first run built
C4_Witness ==
    /\ runNo = 2 /\ pc = "done" /\ HasOk("harness") /\ HasOk("stop")
    /\ \E b \in BuiltBefore : b.run = 1 /\ b.rev = ceph_commit

\* the tag of an image reference name:tag
TagOf(ref) == Split(ref)[2]

\* C5: a runtime artifact the tool built for revision R is found, with tag
\* R, by the runtime lookup for R in every listing of the registry made
\* afterwards (by a later run, or once the run that built it has ended);
\* and for every listing and every revision, the runtime lookup
\* returns nothing or an image tagged with the revision looked for, so that
\* the image a run tests on the hit path carries the revision it read.
C5_LookupByRevision ==
    /\ (pc \in {"local_list_images", "done"} /\ list_images_unpacks(registry)) =>
         LET listed == list_images(registry)
         IN /\ \A b \in built : b.kind = "runtime" =>
                 LET found == find_s3gw_image(listed, b.tag)
                 IN found # <<>> /\ TagOf(found[1]) = b.tag
            /\ \A r \in Revs :
                 LET found == find_s3gw_image(listed, r)
                 IN found # <<>> => TagOf(found[1]) = r
    /\ \A b \in BuiltBefore :
         (HasOk("list_images") /\ pc # "done") =>
             find_s3gw_image(images, b.tag) # <<>>
    /\ (pc \in TestPcs /\ Calls(BuildOps) = {}) => TagOf(s3gw_image[1]) = ceph_commit

\* C5 witness: a later run tests, on the hit path, the artifact an earlier
\* run built, while the registry also holds a runtime artifact of the other
\* revision
C5_Witness ==
    /\ pc = "tests_harness" /\ Calls(BuildOps) = {}
    /\ \E b \in BuiltBefore : b.tag = ceph_commit
    /\ \E r \in Revs : r # ceph_commit /\ find_s3gw_image(images, r) # <<>>

\* the name of an image reference name:tag
NameOf(ref) == Split(ref)[1]

\* the run is about to use, or has used, a builder image found in the listing
BuilderFound == pc = "local_run_builder" /\ ~Has("build_image")

\* C6: for both kinds of artifact, the lookup returns the first listed image
\* whose name ends with the logical name and whose tag is the revision, and
\* nothing when there is no such image.
C6_MatchingPolicy ==
    /\ (ceph_commit # <<>> /\ pc \in TestPcs /\ Calls(BuildOps) = {}) =>
           s3gw_image = FirstArtifact(images, s3gw_image_name, ceph_commit)
    /\ (ceph_commit # <<>> /\ pc = "local_tools_commit") =>
           FirstArtifact(images, s3gw_image_name, ceph_commit) = <<>>
    /\ BuilderFound =>
           build_image = FirstArtifact(images, build_img_name, tools_commit)
    /\ pc = "local_build_image" =>
           FirstArtifact(images, build_img_name, tools_commit) = <<>>

\* C7: the image the runtime lookup returns is never a builder artifact (a
\* name ending with popcorn/builder), also when both repositories are at the
\* same revision, and the image the run uses as builder is never a runtime
\* artifact (a name ending with popcorn/s3gw).
C7_RevisionScoping ==
    /\ (pc \in TestPcs /\ Calls(BuildOps) = {}) =>
           ~EndsWith(NameOf(s3gw_image[1]), build_img_name)
    /\ pc = "local_run_builder" =>
           ~EndsWith(NameOf(build_image[1]), s3gw_image_name)

\* C8: every image the tool built carries as tag the revision the building
\* repository was at: a builder image that of s3gw-tools, a runtime image
\* that of ceph; and the image is in the registry under that name and tag.
C8_TagInvariant ==
    \A b \in built :
        /\ b.tag = b.rev
        /\ TagOf(b.ref) = b.tag
        /\ b.kind = "builder" =>
               b.repo = "s3gw-tools" /\ EndsWith(NameOf(b.ref), build_img_name)
        /\ b.kind = "runtime" =>
               b.repo = "ceph" /\ EndsWith(NameOf(b.ref), s3gw_image_name)
        /\ \E i \in 1..Len(registry) :
               \E j \in 1..Len(registry[i]) : registry[i][j] = b.ref

\* C8 witness: one run built both images while the two repositories were at
\* different revisions
C8_Witness ==
    \E b1, b2 \in built :
        /\ b1.kind = "builder" /\ b2.kind = "runtime" /\ b1.run = b2.run
        /\ b1.tag # b2.tag

\* C9: a `run pr` whose pull request is merged or not found ends with exit
\* code 1 and has made no call but the pull request query.
C9_MergedPrAborts ==
    (argv.cmd = "pr" /\ Len(trace) >= 1
     /\ trace[1].res \in {"merged", "not_found"}) =>
        pc = "done" /\ exitCode = 1 /\ Len(trace) = 1

\* C9 witness: a run on a merged pull request has ended
C9_Witness ==
    argv.cmd = "pr" /\ pc = "done" /\ Len(trace) = 1 /\ trace[1].res = "merged"

\* the configuration lists a repository under the name of the remote asked for
Configurable ==
    config # <<>> /\ \E i \in 1..Len(config[1]) : config[1][i].name = origin

\* what the run does once the remote is settled
AfterRemoteOps ==
    {"update", "show_current", "fetch", "pull", "clean", "checkout",
     "list_images", "get_latest_commit"} \cup BuildOps \cup TestOps

\* C10: in a `run branch`, a remote that is among the remotes is used as it
\* is (the sync is the next call); one that is not, but is configured, is
\* added first; one that is neither is never synced, fetched from or
\* followed by a clean, checkout, build or test call, and the run ends with
\* exit code 1.  The remote is synced only when known, and the branch is
\* fetched only after a successful sync.
C10_RemoteEnsured ==
    (argv.cmd = "branch" /\ Len(trace) >= 1 /\ trace[1].ok) =>
        /\ trace[1].res = "known" =>
             /\ ~Has("add_remote")
             /\ Len(trace) >= 2 => trace[2].op = "update"
        /\ (trace[1].res = "unknown" /\ Configurable) =>
             /\ Len(trace) >= 2 => trace[2].op = "add_remote"
             /\ HasOk("add_remote") => origin \in remotes
             /\ Has("update") => HasOk("add_remote")
        /\ (trace[1].res = "unknown" /\ ~Configurable) =>
             /\ ~Has("add_remote")
             /\ Calls(AfterRemoteOps) = {}
             /\ pc \in {"branch_get_remotes_again", "done"}
             /\ pc = "done" => exitCode = 1
        /\ Has("update") => origin \in remotes
        /\ \A j \in Calls({"show_current", "fetch", "pull"}) :
             \E i \in Calls({"update"}) : i < j /\ trace[i].ok

\* C10 witness: after a run that added the configured remote, a run asking
\* for a remote that is neither known nor configured has ended at the
\* second listing of the remotes
C10_Witness ==
    /\ argv.cmd = "branch" /\ runNo = 2 /\ "fork" \in remotes
    /\ origin = "bogus" /\ Configurable = FALSE /\ config # <<>>
    /\ pc = "done" /\ exitCode = 1 /\ Len(trace) = 2

\* the steps of a run that precede the test runner
PreTestOps == {"pr_exists", "show_current", "fetch", "pull", "clean",
               "checkout", "list_images", "get_latest_commit", "build_image",
               "run_builder", "package"}

\* C11: abort on failure, without retry.  A failed step that precedes the
\* test runner (PR check, fetch or pull, clean, checkout, image listing,
\* revision read, builder image build, compile run, packaging) is the last
\* call of its run, the run has then ended, with exit code 1, and no such
\* step is made twice on the same repository in one run.
C11_AbortOnFailure ==
    /\ \A i \in Calls(PreTestOps) :
         ~trace[i].ok => /\ i = Len(trace)
                         /\ pc = "done"
                         /\ exitCode = 1
    /\ \A i, j \in Calls(PreTestOps) :
         (trace[i].op = trace[j].op /\ trace[i].repo = trace[j].repo) => i = j

\* C11 witness: the checkout of s3gw-tools failed after the checkout of ceph
\* succeeded, and the run ended there
C11_Witness ==
    /\ pc = "done" /\ exitCode = 1
    /\ Len(trace) >= 2
    /\ trace[Len(trace)] = Call("checkout", "s3gw-tools", FALSE)
    /\ trace[Len(trace) - 1] = Call("checkout", "ceph", TRUE)

\* the run has ended, no call of it failed, and it resolved the revision of
\* the target repository
AllStepsSucceeded ==
    /\ pc = "done" /\ ceph_commit # <<>> /\ tools_commit # <<>>
    /\ \A i \in 1..Len(trace) : trace[i].ok

\* the snapshot of the registry holds no artifact for the two revisions of
\* the run: no name ending with popcorn/s3gw tagged with the target revision
\* and no name ending with popcorn/builder tagged with the tooling revision
ColdRegistry ==
    /\ FirstArtifact(images, s3gw_image_name, ceph_commit) = <<>>
    /\ FirstArtifact(images, build_img_name, tools_commit) = <<>>

\* the build and test calls of the run, in the order of a cold run
ColdPathOps == <<"build_image", "run_builder", "package",
                 "start", "harness", "stop">>

\* the run ended with the calls of the cold path, in order, and these are
\* all its build and test calls
RanColdPath ==
    /\ Len(trace) >= Len(ColdPathOps)
    /\ \A k \in 1..Len(ColdPathOps) :
         trace[Len(trace) - Len(ColdPathOps) + k].op = ColdPathOps[k]
    /\ Calls(BuildOps \cup TestOps) =
         (Len(trace) - Len(ColdPathOps) + 1)..Len(trace)

\* C12: cold path.  A run that started from a registry with no matching
\* builder or runtime artifact and in which every step succeeded has made, in
\* this order, the builder image build (tagged with the tooling revision),
\* the compile run, the packaging (tagged with the target revision R), the
\* container start, the harness and the container stop; a runtime artifact
\* tagged R is then in the registry and the exit code is 0.
C12_ColdPath ==
    (AllStepsSucceeded /\ ColdRegistry) =>
        /\ RanColdPath
        /\ \E b \in built : /\ b.kind = "builder" /\ b.run = runNo
                            /\ b.tag = tools_commit
        /\ \E b \in built : /\ b.kind = "runtime" /\ b.run = runNo
                            /\ b.tag = ceph_commit
        /\ list_images_unpacks(registry)
        /\ FirstArtifact(list_images(registry), s3gw_image_name, ceph_commit)
             # <<>>
        /\ exitCode = 0

\* the cold path when, besides, the builder lookup of the code finds nothing
\* (no name that merely contains popcorn/builder carries the tooling revision)
ColdPathOfCodeLookup ==
    (AllStepsSucceeded /\ ColdRegistry /\
     find_build_image(images, tools_commit) = <<>>) =>
        /\ RanColdPath
        /\ \E b \in built : /\ b.kind = "builder" /\ b.run = runNo
                            /\ b.tag = tools_commit
        /\ \E b \in built : /\ b.kind = "runtime" /\ b.run = runNo
                            /\ b.tag = ceph_commit
        /\ list_images_unpacks(registry)
        /\ FirstArtifact(list_images(registry), s3gw_image_name, ceph_commit)
             # <<>>
        /\ exitCode = 0

\* a call op on repository repo succeeded before call number k of the run
OkBefore(op, repo, k) ==
    \E i \in Calls({op}) : i < k /\ trace[i].repo = repo /\ trace[i].ok

\* C13: ordering.  In every run both repositories have been cleaned before
\* either is checked out, both have been checked out before any revision is
\* read, and the revision of a repository is read only after the checkout of
\* that repository succeeded in the same run.
C13_Ordering ==
    /\ \A j \in Calls({"checkout"}) :
         \A r \in Repos : OkBefore("clean", r, j)
    /\ \A k \in Calls({"get_latest_commit"}) :
         /\ \A r \in Repos : OkBefore("checkout", r, k)
         /\ \A j \in Calls({"checkout"}) : j < k
         /\ OkBefore("checkout", trace[k].repo, k)

\* C13 witness: a run read the revisions of both repositories
C13_Witness ==
    /\ \E k \in Calls({"get_latest_commit"}) :
         trace[k].repo = "ceph" /\ trace[k].ok
    /\ \E k \in Calls({"get_latest_commit"}) :
         trace[k].repo = "s3gw-tools" /\ trace[k].ok

\* C14: stage gating.  The compile run is made only when the lookup of the
\* runtime artifact missed and the builder stage either returned a cached
\* builder image or built one successfully; after a failed builder image
\* build there is no compile run, no packaging and no test runner call; the
\* packaging is made only after a successful compile run, and on the build
\* path the test runner is called only after a successful packaging.
C14_StageGating ==
    /\ \A k \in Calls({"run_builder"}) :
         /\ ceph_commit # <<>>
         /\ FirstArtifact(images, s3gw_image_name, ceph_commit) = <<>>
         /\ build_image # <<>>
         /\ \/ /\ ~Has("build_image")
               /\ build_image = find_build_image(images, tools_commit)
            \/ \E i \in Calls({"build_image"}) : i < k /\ trace[i].ok
    /\ HasFailed("build_image") =>
         Calls({"run_builder", "package"} \cup TestOps) = {}
    /\ \A k \in Calls({"package"}) : OkBefore("run_builder", "ceph", k)
    /\ \A k \in Calls(TestOps) :
         Calls(BuildOps) # {} => OkBefore("package", "ceph", k)

\* C14 witness: the test runner was called after a build that went through
\* the three stages
C14_Witness ==
    /\ HasOk("build_image") /\ HasOk("run_builder") /\ HasOk("package")
    /\ Has("start")

\* the calls of the run that ask whether the PR of repository repo exists
PrChecks(repo) == { i \in Calls({"pr_exists"}) : trace[i].repo = repo }

\* C15: tooling PR.  A run given a tools PR that does not exist ends with
\* exit code 1 at the check; a merged tools PR does not end the run: the PR
\* is fetched next, and its local ref popcorn/origin/pull/<id>/head is what
\* s3gw-tools is checked out at.  A merged PR of ceph does end the run.
C15_ToolingPr ==
    /\ \A i \in PrChecks("s3gw-tools") :
         /\ trace[i].res = "not_found" =>
              i = Len(trace) /\ pc = "done" /\ exitCode = 1
         /\ trace[i].res \in {"open", "merged"} =>
              /\ i = Len(trace) => pc = "local_tools_pr_fetch"
              /\ i < Len(trace) =>
                   trace[i + 1] = Call("show_current", "s3gw-tools",
                                       trace[i + 1].ok)
              /\ OkBefore("checkout", "s3gw-tools", Len(trace) + 1) =>
                   /\ tools_branch = <<"popcorn/", "origin", "/", "pull/",
                                       argv.tools_pr_id[1], "/head">>
                   /\ cur["s3gw-tools"] = tools_branch
    /\ \A i \in PrChecks("ceph") :
         trace[i].res = "merged" =>
             i = Len(trace) /\ pc = "done" /\ exitCode = 1

\* C15 witness: s3gw-tools is checked out at the ref of a merged tools PR
C15_Witness ==
    /\ \E i \in PrChecks("s3gw-tools") : trace[i].res = "merged"
    /\ OkBefore("checkout", "s3gw-tools", Len(trace) + 1)
    /\ cur["s3gw-tools"] = <<"popcorn/", "origin", "/", "pull/", "7", "/head">>

\* the references of the images of a listing
RefsOf(imgs) == { Ref(imgs[i].name, imgs[i].tag) : i \in 1..Len(imgs) }

\* what the run has decided so far agrees with the snapshot it took: the
\* listing is made at most once, after both checkouts; the runtime lookup
\* hit exactly when the snapshot holds the artifact, whatever the registry
\* holds by now; a builder image taken from the cache is in the snapshot,
\* and one is built only when the snapshot holds none
DecidedOnSnapshot ==
    /\ Cardinality(Calls({"list_images"})) <= 1
    /\ \A k \in Calls({"list_images"}) :
         \A r \in Repos : OkBefore("checkout", r, k)
    /\ ceph_commit # <<>> =>
         /\ OkBefore("list_images", "-", Len(trace) + 1)
         /\ IF FirstArtifact(images, s3gw_image_name, ceph_commit) # <<>>
            THEN /\ s3gw_image = FirstArtifact(images, s3gw_image_name,
                                               ceph_commit)
                 /\ Calls(BuildOps) = {}
            ELSE /\ s3gw_image = <<Ref(s3gw_image_name, ceph_commit)>>
                 /\ Has("start") => HasOk("package")
    /\ (tools_commit # <<>> /\ pc # "local_build_image") =>
         IF Has("build_image")
         THEN find_build_image(images, tools_commit) = <<>>
         ELSE build_image # <<>> /\ build_image[1] \in RefsOf(images)

\* the snapshot changes only when the registry is listed, to the listing of
\* the registry at that time, and when the next run starts
SnapshotKept ==
    images' # images =>
        \/ /\ pc = "local_list_images"
           /\ list_images_unpacks(registry)
           /\ images' = list_images(registry)
        \/ pc \in {"idle", "done"} /\ images' = <<>> /\ runNo' = runNo + 1

\* C16: single snapshot.  The registry is listed once per run, after the
\* checkouts; the lookup of the runtime artifact and the lookup of the
\* builder image read that listing; an artifact another process adds after
\* the listing is not seen by the run, which builds, and is seen by a later
\* run, which lists the registry afresh.
C16_SingleSnapshot == []DecidedOnSnapshot /\ [][SnapshotKept]_vars

\* C16 witness: the run is about to package its image although another
\* process has added the runtime artifact of its revision after the listing
C16_Witness ==
    /\ pc \in {"local_tools_commit", "local_build_image", "local_run_builder",
               "local_package"}
    /\ FirstArtifact(images, s3gw_image_name, ceph_commit) = <<>>
    /\ list_images_unpacks(registry)
    /\ FirstArtifact(list_images(registry), s3gw_image_name, ceph_commit)
         # <<>>

\* C17: a failing stop of the test instance is fatal.  A run whose container
\* stop failed ends with exit code 1, whether the harness passed or failed.
C17_StopFailureFatal ==
    HasFailed("stop") =>
        /\ pc = "done" /\ exitCode = 1
        /\ trace[Len(trace)].op = "stop"

\* C17 witness: the stop failed after the harness had passed
C17_Witness ==
    HasOk("harness") /\ HasFailed("stop") /\ success /\ exitCode = 1

\* C18: verdict.  When run_tests returns (the stop succeeded), the value it
\* returns is true exactly when the harness exited 0; from the harness on,
\* the value is the outcome of the harness, whatever start and stop did.
C18_Verdict ==
    /\ (pc = "done" /\ HasOk("stop")) => (success <=> HasOk("harness"))
    /\ Has("harness") => (success <=> HasOk("harness"))
    /\ ~Has("harness") => ~success

\* C18 witness: run_tests returned false after a failing harness and a
\* successful stop
C18_Witness ==
    pc = "done" /\ HasFailed("harness") /\ HasOk("stop") /\ ~success

\* C20: a failing start of the test instance ends the run with exit code 1;
\* the harness is not run and no stop is issued.
C20_StartFailure ==
    HasFailed("start") =>
        /\ pc = "done" /\ exitCode = 1
        /\ trace[Len(trace)].op = "start"
        /\ ~Has("harness") /\ ~Has("stop")

\* C20 witness: the start failed right after a successful packaging
C20_Witness ==
    /\ HasFailed("start") /\ HasOk("package") /\ pc = "done"

\* the local name popcorn/<remote>/<ref> of what the run fetches for repo:
\* the branch of the given remote or the head of the PR for ceph, the head
\* of the tools PR for s3gw-tools
FetchedName(repo) ==
    IF repo = "s3gw-tools"
    THEN <<"popcorn/", "origin", "/", "pull/", argv.tools_pr_id[1], "/head">>
    ELSE IF argv.cmd = "pr"
    THEN <<"popcorn/", "origin", "/", "pull/", argv.pr_id, "/head">>
    ELSE <<"popcorn/", origin, "/">> \o argv.name

\* the ref the run holds for repo as the result of a fetch
FetchedRef(repo) == IF repo = "ceph" THEN ceph_branch ELSE tools_branch

\* the value the ref of repo has when nothing was fetched for it
NoRef(repo) == IF repo = "ceph" THEN <<>> ELSE <<"main">>

\* C19: self-fast-forward in fetch.  After the query of the current branch
\* fetch makes one more git call: a forced pull when the checked-out branch
\* is the local name popcorn/<remote>/<ref>, a plain fetch otherwise; when
\* both succeed the ref it returns is that local name; when the query or the
\* fetch or pull fails no ref is returned and the run ends.  A PR is fetched
\* the same way with remote origin and ref pull/<id>/head.
C19_Fetch ==
    /\ \A i \in Calls({"show_current"}) :
         /\ ~trace[i].ok =>
              /\ i = Len(trace) /\ pc = "done"
              /\ FetchedRef(trace[i].repo) = NoRef(trace[i].repo)
         /\ (trace[i].ok /\ i < Len(trace)) =>
              /\ trace[i + 1].op \in {"fetch", "pull"}
              /\ trace[i + 1].repo = trace[i].repo
    /\ \A i \in Calls({"fetch", "pull"}) :
         /\ i > 1 /\ trace[i - 1] = Call("show_current", trace[i].repo, TRUE)
         /\ ~Has("checkout") =>
              (trace[i].op = "pull" <=>
                   cur[trace[i].repo] = FetchedName(trace[i].repo))
         /\ IF trace[i].ok
            THEN FetchedRef(trace[i].repo) = FetchedName(trace[i].repo)
            ELSE /\ i = Len(trace) /\ pc = "done"
                 /\ FetchedRef(trace[i].repo) = NoRef(trace[i].repo)

\* C19 witness: ceph was on the local branch of the ref when the run fetched
\* it, and the forced pull returned that branch
C19_Witness ==
    /\ ~Has("checkout")
    /\ \E i \in Calls({"pull"}) : trace[i].repo = "ceph" /\ trace[i].ok
    /\ ceph_branch = cur["ceph"]

\* the harness runs of earlier runs that failed on an artifact the run had
\* built itself
FailedBefore == { t \in tested : t.run < runNo /\ t.fresh /\ ~t.passed }

\* C21: a failing verdict does not invalidate the cache.  The runtime
\* artifact a run built stays tagged in the registry when its tests fail,
\* and a later run that finds the target repository at the same revision
\* makes no build call and goes to the test runner with that same artifact.
C21_FailedVerdictKeepsCache ==
    /\ \A t \in tested :
         (t.fresh /\ ~t.passed) =>
             /\ list_images_unpacks(registry)
             /\ Normalize(t.image) \in RefsOf(list_images(registry))
    /\ \A t \in FailedBefore :
         t.rev = ceph_commit =>
             /\ Calls(BuildOps) = {}
             /\ ~\E i \in Calls({"get_latest_commit"}) :
                  trace[i].repo = "s3gw-tools"
             /\ pc \in TestPcs \cup {"done"}
             /\ s3gw_image = <<Normalize(t.image)>>

\* C21 witness: the second run tested again, without building, the artifact
\* the first run built and found failing
C21_Witness ==
    /\ runNo = 2 /\ pc = "done" /\ Has("harness") /\ Calls(BuildOps) = {}
    /\ \E t \in FailedBefore : t.run = 1 /\ t.rev = ceph_commit

\* the tooling ref selected for the run: main when no tools PR is given, the
\* local ref of the fetched tools PR otherwise
SelectedToolsRef ==
    IF argv.tools_pr_id = <<>> THEN <<"main">>
    ELSE <<"popcorn/", "origin", "/", "pull/", argv.tools_pr_id[1], "/head">>

\* C22: in every run that reaches the test runner, on the fast path or on
\* the build path, s3gw-tools has been checked out successfully in that run
\* and is at the tooling ref selected for the run, so the harness run is the
\* one of that ref.
C22_HarnessOfSelectedRef ==
    (pc \in TestPcs \/ Calls(TestOps) # {}) =>
        /\ OkBefore("checkout", "s3gw-tools", Len(trace) + 1)
        /\ \A k \in Calls(TestOps) : OkBefore("checkout", "s3gw-tools", k)
        /\ cur["s3gw-tools"] = SelectedToolsRef

\* C22 witness: the harness of a tools PR ran on the fast path, in a run
\* that found s3gw-tools on another branch
C22_Witness ==
    /\ Has("harness") /\ Calls(BuildOps) = {}
    /\ argv.tools_pr_id # <<>>
    /\ \E i \in Calls({"fetch"}) : trace[i].repo = "s3gw-tools"
    /\ cur["s3gw-tools"] = SelectedToolsRef

\* the containers that carry the name of the test instance
TestInstances == { c \in containers : c.name = TestInstance }

\* C23: single-slot test instance.  Over successive runs, also after a run
\* that left the instance running, there is at any time at most one
\* container named popcorn-s3gw, hence at most one running: a successful
\* start replaces the prior one, and the one running is then the one the
\* run started.
C23_SingleSlot ==
    /\ Cardinality(TestInstances) <= 1
    /\ Cardinality({ c \in TestInstances : c.running }) <= 1
    /\ HasOk("start") => \A c \in TestInstances : c.run = runNo

\* C23 witness: the instance of this run is running in the place of the
\* instance an earlier run had left running
C23_Witness ==
    /\ runNo = 2 /\ HasOk("start")
    /\ \E c \in TestInstances : c.running /\ c.run = 2 /\ c.took_over

====
